---- MODULE Spec2Model ----
(***************************************************************************)
(* Model of tutorials/Part2_mesh_io/mesh_io.ipynb: the mesh import/export  *)
(* notebook.  One action per code cell, executed top to bottom; an         *)
(* exception raised inside a cell stops the run (err records it).          *)
(*                                                                         *)
(* Text is modelled at the level of whitespace-separated tokens.  A token  *)
(* is a record [k, v, d]: k is the kind of literal ("int" such as 12,      *)
(* "float" such as 0.5), v the number it denotes and d the punctuation     *)
(* glued to it ("" for a bare literal; "[" "," "]" for the brackets and    *)
(* commas that str(list) puts around the items of a list).                 *)
(*                                                                         *)
(* The OpenCMISS-Iron objects are modelled by what the notebook declares   *)
(* on them: nodes.CreateStart(region, num_nodes) declares user nodes       *)
(* 1..num_nodes, mesh.NumberOfElementsSet(num_elements) declares elements  *)
(* 1..num_elements, the coordinate system has 3 dimensions.  A call that   *)
(* names a node, element or component outside what was declared raises    *)
(* CMISSError.                                                             *)
(*                                                                         *)
(* The file holds a second notebook, "The basics" (the Laplace problem on  *)
(* a generated mesh).  Its cells are the actions of LaplaceNext and its    *)
(* run is LaplaceSpec; the two notebooks share no state.  Field values of  *)
(* the Laplace notebook are in tenths (0.5 is 5); what problem.Solve()     *)
(* computes for a free degree of freedom is the library's and is kept as   *)
(* the opaque value Solved.                                                *)
(*                                                                         *)
(* ParallelSpec is the cell "Set geometric field values" of the mesh       *)
(* import notebook run by several MPI processes at once: each process      *)
(* walks the node lines on its own and writes the nodes of its domain.     *)
(***************************************************************************)
EXTENDS Integers, Sequences, FiniteSets, TLC

\* ---------------------------------------------------------------- bounds
MaxNodes == 5
MaxElems == 2
MaxMissing == 1
MaxExtraTokens == 2
\* The generated meshes of the Laplace notebook: 1..MaxXElements by
\* 1..MaxYElements elements.
MaxXElements == 2
MaxYElements == 3
\* The parallel run of the geometric-field loop: at most MaxComputationalNodes
\* processes, on node files of at most MaxParallelNodes nodes.
MaxComputationalNodes == 2
MaxParallelNodes == 3

\* ------------------------------------------------------ program constants
CoordinateSystemDimension == 3
SolutionInitialValue == 1000
NodeLineTargets == 4
NodeHeaderTargets == 4
ElemLineTargets == 5
ElemHeaderTargets == 3
NodesPerElementRead == 4
\* The Laplace notebook: mesh parameters, initial value and boundary values
\* (field values and lengths in tenths).
DefaultXElements == 1
DefaultYElements == 3
Height == 10
Width == 10
InitialValue == 5
FirstNodeValue == 0
LastNodeValue == 10
DependentComponent == 1

VARIABLES
    pc, err, err_cell,
    node_file, elem_file,
    num_nodes, num_coords, num_attributes, boundary_markers,
    NodeNums, NodeCoords,
    num_elements, nodes_per_ele, ele_attributes, ElemMap, Elemindex,
    created, nodes, mesh, meshElements, geometric_field, solution_field,
    nodes_list, elements_list, out_node_file, out_elem_file,
    arrays, finalised, points, cells_array, solution_field_nodes, vtk_file,
    lap_pc, lap_created, lap_basis, generated_mesh, lap_mesh,
    lap_geometric_field, dependent_field, boundary_conditions,
    firstNodeNumber, lastNodeNumber, exnode, exelem,
    numberOfComputationalNodes, parallel_file, nodeDomains, loop_i, loop_err,
    distributed_field, writers

pyvars == <<num_nodes, num_coords, num_attributes, boundary_markers,
            NodeNums, NodeCoords>>
elvars == <<num_elements, nodes_per_ele, ele_attributes, ElemMap, Elemindex>>
libvars == <<created, nodes, mesh, meshElements, geometric_field,
             solution_field, finalised>>
outvars == <<nodes_list, elements_list, out_node_file, out_elem_file, arrays,
             points, cells_array, solution_field_nodes, vtk_file>>
\* The variables of the mesh_io notebook and of the Laplace notebook.
meshiovars == <<pc, err, err_cell, node_file, elem_file, pyvars, elvars,
                libvars, outvars>>
lapvars == <<lap_pc, lap_created, lap_basis, generated_mesh, lap_mesh,
             lap_geometric_field, dependent_field, boundary_conditions,
             firstNodeNumber, lastNodeNumber, exnode, exelem>>
\* The variables of the geometric-field loop run by several processes.
mpivars == <<numberOfComputationalNodes, parallel_file, nodeDomains, loop_i,
             loop_err, distributed_field, writers>>
vars == <<meshiovars, lapvars, mpivars>>

\* ---------------------------------------------------------------- tokens
IntTok(n) == [k |-> "int", v |-> n, d |-> ""]
FloatTok(n) == [k |-> "float", v |-> n, d |-> ""]

\* int(s): only a bare integer literal converts.
IntOk(t) == t.k = "int" /\ t.d = ""
\* float(s): a bare integer or decimal literal converts.
FloatOk(t) == t.k \in {"int", "float"} /\ t.d = ""

\* A reader that reads the last line again when the file has ended.
ReadLineSplitAgain(file, n) ==
    IF n <= Len(file) THEN file[n] ELSE file[Len(file)]

\* file.readline().split(): the tokens of line n (1-based), [] past the end.
ReadLineSplit(file, n) == IF n <= Len(file) THEN file[n] ELSE <<>>

Zeros(n) == [j \in 1..n |-> 0]

\* An int object that never was text: the 0 the element table is filled with.
PyZero == [k |-> "pyint", v |-> 0, d |-> ""]
\* int(x) for a table slot: a bare integer literal or an int object.
IntSlotOk(t) == IntOk(t) \/ t.k = "pyint"

\* ----------------------------------------------------------- node reader
NodeResult(e, at, n, nc, na, bm, nums, coords) ==
    [err |-> e, at |-> at, num_nodes |-> n, num_coords |-> nc,
     num_attributes |-> na, boundary_markers |-> bm,
     NodeNums |-> nums, NodeCoords |-> coords]

\* One pass of "for i in range(num_nodes)" and the passes after it; i is the
\* code's 0-based index, the line read is line i + 2 of the file.  The 4-target
\* unpacking checks the token count before any target is assigned; the targets
\* are then assigned left to right, NodeCoords[i][2] last.
RECURSIVE NodeLoop(_, _, _, _, _, _, _, _)
NodeLoop(file, i, n, nc, na, bm, nums, coords) ==
    IF i >= n THEN NodeResult("none", i, n, nc, na, bm, nums, coords)
    ELSE LET t == ReadLineSplit(file, i + 2) IN
         IF Len(t) # NodeLineTargets
           THEN NodeResult("ValueError", i, n, nc, na, bm, nums, coords)
         ELSE IF nc < NodeLineTargets - 1
           THEN NodeResult("IndexError", i, n, nc, na, bm, nums, coords)
         ELSE IF ~IntOk(t[1]) \/ ~FloatOk(t[2]) \/ ~FloatOk(t[3]) \/ ~FloatOk(t[4])
           THEN NodeResult("ValueError", i, n, nc, na, bm, nums, coords)
         ELSE NodeLoop(file, i + 1, n, nc, na, bm,
                       [nums EXCEPT ![i + 1] = <<t[1].v, 0>>],
                       [coords EXCEPT ![i + 1] =
                           [j \in 1..nc |-> IF j <= 3 THEN t[j + 1].v ELSE 0]])

\* The whole cell "Reading node file".
ReadNodeFile(file) ==
    LET h == ReadLineSplit(file, 1) IN
    IF Len(h) # NodeHeaderTargets
      THEN NodeResult("ValueError", 0, 0, 0, 0, 0, <<>>, <<>>)
    ELSE IF \E j \in 1..NodeHeaderTargets : ~IntOk(h[j])
      THEN NodeResult("ValueError", 0, 0, 0, 0, 0, <<>>, <<>>)
    ELSE NodeLoop(file, 0, h[1].v, h[2].v, h[3].v, h[4].v,
                  [r \in 1..h[1].v |-> <<0, 0>>],
                  [r \in 1..h[1].v |-> Zeros(h[2].v)])

\* -------------------------------------------------------- element reader
ElemResult(e, at, n, npe, ea, map, idx) ==
    [err |-> e, at |-> at, num_elements |-> n, nodes_per_ele |-> npe,
     ele_attributes |-> ea, ElemMap |-> map, Elemindex |-> idx]

\* One pass of "for i in range(num_elements)" and the passes after it.  The
\* tokens are stored as read (text); ElemMap[i][3] is the last target.
RECURSIVE ElemLoop(_, _, _, _, _, _, _)
ElemLoop(file, i, n, npe, ea, map, idx) ==
    IF i >= n THEN ElemResult("none", i, n, npe, ea, map, idx)
    ELSE LET t == ReadLineSplit(file, i + 2) IN
         IF Len(t) # ElemLineTargets
           THEN ElemResult("ValueError", i, n, npe, ea, map, idx)
         ELSE IF npe + ea < ElemLineTargets - 1
           THEN ElemResult("IndexError", i, n, npe, ea, map, idx)
         ELSE ElemLoop(file, i + 1, n, npe, ea,
                       [map EXCEPT ![i + 1] =
                           [j \in 1..(npe + ea) |->
                               IF j <= ElemLineTargets - 1 THEN t[j + 1] ELSE PyZero]],
                       [idx EXCEPT ![i + 1] = <<t[1]>>])

\* The whole cell "Inputing element file".
ReadElemFile(file) ==
    LET h == ReadLineSplit(file, 1) IN
    IF Len(h) # ElemHeaderTargets
      THEN ElemResult("ValueError", 0, 0, 0, 0, <<>>, <<>>)
    ELSE IF \E j \in 1..ElemHeaderTargets : ~IntOk(h[j])
      THEN ElemResult("ValueError", 0, 0, 0, 0, <<>>, <<>>)
    ELSE ElemLoop(file, 0, h[1].v, h[2].v, h[3].v,
                  [r \in 1..h[1].v |-> [j \in 1..(h[2].v + h[3].v) |-> PyZero]],
                  [r \in 1..h[1].v |-> <<PyZero>>])

\* ----------------------------------------------------------- input files
\* Coordinates of the node on the i-th line of a node file: the corners of the
\* reference tetrahedron first, then points off it, all different.
Corner(i) ==
    IF i = 1 THEN <<0, 0, 0>>
    ELSE IF i = 2 THEN <<1, 0, 0>>
    ELSE IF i = 3 THEN <<0, 1, 0>>
    ELSE IF i = 4 THEN <<0, 0, 1>>
    ELSE <<1, 1, i - 4>>

IdPatterns == {"asc", "swap", "dup", "gap"}

\* The id on line i of L lines: ascending 1..L; the first two lines swapped;
\* line 2 repeating id 1; the last line skipping one id.
IdAt(pat, i, L) ==
    IF pat = "swap" /\ L >= 2 /\ i <= 2 THEN 3 - i
    ELSE IF pat = "dup" /\ i = 2 THEN 1
    ELSE IF pat = "gap" /\ i = L THEN L + 1
    ELSE i

\* A node file: the header (its first hdr fields), then L lines of an id, lc
\* coordinates and extra trailing fields (attributes, boundary marker).
NodeFileOf(N, dim, attrs, bm, hdr, L, lc, extra, pat) ==
    <<SubSeq(<<IntTok(N), IntTok(dim), IntTok(attrs), IntTok(bm)>>, 1, hdr)>>
    \o [i \in 1..L |->
          <<IntTok(IdAt(pat, i, L))>>
          \o [j \in 1..lc |-> FloatTok(Corner(i)[j])]
          \o [j \in 1..extra |-> IntTok(1)]]

NodeFiles ==
    { NodeFileOf(N, dim, attrs, bm, hdr, N - miss, lc, extra, pat) :
        N \in 1..MaxNodes, dim \in {2, 3}, attrs \in {0, 1}, bm \in {0, 1},
        hdr \in {3, 4}, miss \in 0..MaxMissing, lc \in {2, 3},
        extra \in 0..MaxExtraTokens, pat \in IdPatterns }

ElemPatterns == {"asc", "swap", "dup", "gap", "rev", "dangling", "rep"}

\* The node ids on line j of an element file: j, j+1, j+2, j+3 in the winding
\* the basis expects; "rev" exchanges two of them (the mirrored winding),
\* "dangling" names a node no node file of the model declares, "rep" names
\* one node twice.
ElemNodesAt(pat, j) ==
    IF pat = "rev" THEN <<j, j + 2, j + 1, j + 3>>
    ELSE IF pat = "dangling" THEN <<j, j + 1, j + 2, MaxNodes + 1>>
    ELSE IF pat = "rep" THEN <<j, j, j + 1, j + 2>>
    ELSE <<j, j + 1, j + 2, j + 3>>

\* An element file: the header, then L lines of an id, ln node ids and extra
\* trailing attributes.
ElemFileOf(M, npe, ea, L, ln, extra, pat) ==
    <<<<IntTok(M), IntTok(npe), IntTok(ea)>>>>
    \o [j \in 1..L |->
          <<IntTok(IdAt(pat, j, L))>>
          \o [k \in 1..ln |-> IntTok(ElemNodesAt(pat, j)[k])]
          \o [k \in 1..extra |-> IntTok(1)]]

ElemFiles ==
    { ElemFileOf(M, npe, ea, M - miss, ln, extra, pat) :
        M \in 1..MaxElems, npe \in {3, 4}, ea \in {0, 1},
        miss \in 0..MaxMissing, ln \in {3, 4},
        extra \in 0..MaxExtraTokens, pat \in ElemPatterns }

\* ------------------------------------------------------- library objects
Objects == {"coordinate_system", "basis", "region", "nodes", "mesh",
            "meshElements", "decomposition", "geometric_field",
            "solution_field"}

\* iron.ComputationalNodeNumberGet() of the one process that runs the notebook.
ComputationalNodeNumber == 0
\* decomposition.NodeDomainGet(node, 1): the one domain of a one-process run.
NodeDomainGet(node) == 0

\* What NodesGet may return for an element no NodesSet call ever defined.
UnsetNodeLists == {<<0, 0, 0, 0>>, <<1, 1, 1, 1>>}

\* The objects of the Laplace notebook, "iron" being the library itself.
LaplaceObjects == {"iron", "coordinate_system", "basis", "region",
                   "generated_mesh", "mesh", "decomposition",
                   "geometric_field", "dependent_field",
                   "equations_set_field", "equations_set", "equations",
                   "problem", "control_loops", "solver", "solver_equations",
                   "boundary_conditions", "fields"}

\* The Laplace notebook before its first cell.
LaplaceStart ==
    /\ lap_pc = "import"
    /\ lap_created = [o \in LaplaceObjects |-> "none"]
    /\ lap_basis = <<>> /\ generated_mesh = <<>> /\ lap_mesh = <<>>
    /\ lap_geometric_field = <<>> /\ dependent_field = <<>>
    /\ boundary_conditions = <<>>
    /\ firstNodeNumber = 0 /\ lastNodeNumber = 0
    /\ exnode = <<>> /\ exelem = <<>>

\* ------------------------------------------------------------------ Init
\* The parallel run before mpiexec starts its processes.
ParallelStart ==
    /\ numberOfComputationalNodes = 0
    /\ parallel_file = <<>> /\ nodeDomains = <<>>
    /\ loop_i = <<>> /\ loop_err = <<>>
    /\ distributed_field = <<>> /\ writers = <<>>

Init ==
    /\ LaplaceStart
    /\ ParallelStart
    /\ pc = "coordinate_system" /\ err = "none" /\ err_cell = "none"
    /\ node_file = <<>> /\ elem_file = <<>>
    /\ num_nodes = 0 /\ num_coords = 0 /\ num_attributes = 0
    /\ boundary_markers = 0 /\ NodeNums = <<>> /\ NodeCoords = <<>>
    /\ num_elements = 0 /\ nodes_per_ele = 0 /\ ele_attributes = 0
    /\ ElemMap = <<>> /\ Elemindex = <<>>
    /\ created = [o \in Objects |-> "none"]
    /\ nodes = 0 /\ mesh = [dimension |-> 0, numberOfElements |-> 0]
    /\ meshElements = <<>> /\ geometric_field = <<>> /\ solution_field = <<>>
    /\ finalised = FALSE
    /\ nodes_list = <<>> /\ elements_list = <<>>
    /\ out_node_file = <<>> /\ out_elem_file = <<>> /\ arrays = <<>>
    /\ points = <<>> /\ cells_array = <<>> /\ solution_field_nodes = <<>>
    /\ vtk_file = <<>>

\* An exception leaves the cell and ends the run; err_cell is the cell it
\* was raised in.
Raise(e) ==
    pc' = "aborted" /\ err' = e /\ err_cell' = pc /\ UNCHANGED <<lapvars, mpivars>>
Goto(cell) == pc' = cell /\ UNCHANGED <<err, err_cell, lapvars, mpivars>>

\* CreateStart ... CreateFinish of one object inside one cell.
Finished(o) == [created EXCEPT ![o] = "finished"]

StartedAndFinished(o) == [created EXCEPT ![o] = "finished"]

\* o.CreateStart(...) with its CreateFinish still to come.
Started(o) == [created EXCEPT ![o] = "started"]

\* ----------------------------------------------------------------- cells
CreateCoordinateSystem ==
    /\ pc = "coordinate_system"
    /\ created' = Finished("coordinate_system")
    /\ Goto("read_nodes")
    /\ UNCHANGED <<node_file, elem_file, pyvars, elvars, nodes, mesh,
                   meshElements, geometric_field, solution_field, finalised,
                   outvars>>

ReadNodes ==
    /\ pc = "read_nodes"
    /\ \E f \in NodeFiles :
         LET r == ReadNodeFile(f) IN
         /\ node_file' = f
         /\ num_nodes' = r.num_nodes
         /\ num_coords' = r.num_coords
         /\ num_attributes' = r.num_attributes
         /\ boundary_markers' = r.boundary_markers
         /\ NodeNums' = r.NodeNums
         /\ NodeCoords' = r.NodeCoords
         /\ IF r.err = "none" THEN Goto("read_elems") ELSE Raise(r.err)
    /\ UNCHANGED <<elem_file, elvars, libvars, outvars>>

ReadElems ==
    /\ pc = "read_elems"
    /\ \E f \in ElemFiles :
         LET r == ReadElemFile(f) IN
         /\ elem_file' = f
         /\ num_elements' = r.num_elements
         /\ nodes_per_ele' = r.nodes_per_ele
         /\ ele_attributes' = r.ele_attributes
         /\ ElemMap' = r.ElemMap
         /\ Elemindex' = r.Elemindex
         /\ IF r.err = "none" THEN Goto("basis") ELSE Raise(r.err)
    /\ UNCHANGED <<node_file, pyvars, libvars, outvars>>

CreateBasis ==
    /\ pc = "basis"
    /\ created' = Finished("basis")
    /\ Goto("region")
    /\ UNCHANGED <<node_file, elem_file, pyvars, elvars, nodes, mesh,
                   meshElements, geometric_field, solution_field, finalised,
                   outvars>>

CreateRegion ==
    /\ pc = "region"
    /\ created' = Finished("region")
    /\ Goto("nodes")
    /\ UNCHANGED <<node_file, elem_file, pyvars, elvars, nodes, mesh,
                   meshElements, geometric_field, solution_field, finalised,
                   outvars>>

InitialiseNodes ==
    /\ pc = "nodes"
    /\ nodes' = num_nodes
    /\ created' = Finished("nodes")
    /\ Goto("mesh")
    /\ UNCHANGED <<node_file, elem_file, pyvars, elvars, mesh, meshElements,
                   geometric_field, solution_field, finalised, outvars>>

\* mesh.CreateStart without its CreateFinish: that comes two cells later.
InitialiseMesh ==
    /\ pc = "mesh"
    /\ mesh' = [dimension |-> num_coords, numberOfElements |-> num_elements]
    /\ created' = Started("mesh")
    /\ Goto("elements")
    /\ UNCHANGED <<node_file, elem_file, pyvars, elvars, nodes, meshElements,
                   geometric_field, solution_field, finalised, outvars>>

NodesListOfReordered(row) == <<row[1].v, row[3].v, row[2].v, row[4].v>>

\* nodesList = list(map(int, [ElemMap[i][0], ..., ElemMap[i][3]])): the four
\* node ids in the order of the table row.
NodesListOf(row) == <<row[1].v, row[2].v, row[3].v, row[4].v>>

\* The passes of "for i in range(num_elements)" of the cell "Initialise
\* Elements": NodesSet(int(element), nodesList) on the declared elements
\* 1..nElems and nodes 1..nNodes.
RECURSIVE NodesSetLoop(_, _, _, _, _, _, _)
NodesSetLoop(i, n, idx, map, elems, nNodes, nElems) ==
    IF i >= n THEN [err |-> "none", at |-> i, elems |-> elems]
    ELSE IF \E k \in 1..NodesPerElementRead : ~IntSlotOk(map[i + 1][k])
      THEN [err |-> "ValueError", at |-> i, elems |-> elems]
    ELSE IF ~IntSlotOk(idx[i + 1][1])
      THEN [err |-> "ValueError", at |-> i, elems |-> elems]
    ELSE LET element == idx[i + 1][1].v
             nodesList == NodesListOf(map[i + 1])
         IN IF element \notin 1..nElems
               \/ \E k \in 1..NodesPerElementRead : nodesList[k] \notin 1..nNodes
              THEN [err |-> "CMISSError", at |-> i, elems |-> elems]
            ELSE NodesSetLoop(i + 1, n, idx, map,
                              [elems EXCEPT ![element] = nodesList],
                              nNodes, nElems)

InitialiseElements ==
    /\ pc = "elements"
    /\ LET r == NodesSetLoop(0, num_elements, Elemindex, ElemMap,
                             [e \in 1..mesh.numberOfElements |-> <<>>],
                             nodes, mesh.numberOfElements)
       IN /\ meshElements' = r.elems
          /\ IF r.err = "none"
               THEN /\ created' = Finished("meshElements")
                    /\ Goto("mesh_finish")
               ELSE /\ created' = Started("meshElements")
                    /\ Raise(r.err)
    /\ UNCHANGED <<node_file, elem_file, pyvars, elvars, nodes, mesh,
                   geometric_field, solution_field, finalised, outvars>>

FinaliseMesh ==
    /\ pc = "mesh_finish"
    /\ created' = Finished("mesh")
    /\ Goto("decomposition")
    /\ UNCHANGED <<node_file, elem_file, pyvars, elvars, nodes, mesh,
                   meshElements, geometric_field, solution_field, finalised,
                   outvars>>

DecomposeMesh ==
    /\ pc = "decomposition"
    /\ created' = Finished("decomposition")
    /\ Goto("geometric_field")
    /\ UNCHANGED <<node_file, elem_file, pyvars, elvars, nodes, mesh,
                   meshElements, geometric_field, solution_field, finalised,
                   outvars>>

\* The field has one value per declared node and coordinate, 0 after creation.
CreateGeometricField ==
    /\ pc = "geometric_field"
    /\ geometric_field' = [n \in 1..nodes |-> Zeros(CoordinateSystemDimension)]
    /\ created' = Finished("geometric_field")
    /\ Goto("geometric_values")
    /\ UNCHANGED <<node_file, elem_file, pyvars, elvars, nodes, mesh,
                   meshElements, solution_field, finalised, outvars>>

UpdateNodeDPInPlane(field, node, coords) ==
    [field EXCEPT ![node] = <<coords[1], coords[2]>>]

\* The three ParameterSetUpdateNodeDP calls of one pass: components 1, 2, 3
\* of node get the three coordinates of line i.
UpdateNodeDP(field, node, coords) ==
    [field EXCEPT ![node] = <<coords[1], coords[2], coords[3]>>]

NodeOfLineByPosition(nums, i) == i + 1

\* node = NodeNums[i][0]: the id read from line i (i is 0-based).
NodeOfLine(nums, i) == nums[i + 1][1]

\* The passes of "for i in range(num_nodes)" of the cell "Set geometric field
\* values": node is the id read from line i.
RECURSIVE GeometricLoop(_, _, _, _, _, _)
GeometricLoop(i, n, nums, coords, field, nNodes) ==
    IF i >= n THEN [err |-> "none", at |-> i, field |-> field]
    ELSE LET node == NodeOfLine(nums, i) IN
         IF node \notin 1..nNodes
           THEN [err |-> "CMISSError", at |-> i, field |-> field]
         ELSE IF NodeDomainGet(node) = ComputationalNodeNumber
           THEN GeometricLoop(i + 1, n, nums, coords,
                              UpdateNodeDP(field, node, coords[i + 1]), nNodes)
         ELSE GeometricLoop(i + 1, n, nums, coords, field, nNodes)

SetGeometricValues ==
    /\ pc = "geometric_values"
    /\ LET r == GeometricLoop(0, num_nodes, NodeNums, NodeCoords,
                              geometric_field, nodes)
       IN /\ geometric_field' = r.field
          /\ IF r.err = "none" THEN Goto("geometric_update") ELSE Raise(r.err)
    /\ UNCHANGED <<node_file, elem_file, pyvars, elvars, created, nodes, mesh,
                   meshElements, solution_field, finalised, outvars>>

\* ParameterSetUpdateStart/Finish: nothing to exchange in a one-process run.
UpdateGeometricField ==
    /\ pc = "geometric_update"
    /\ Goto("solution_field")
    /\ UNCHANGED <<node_file, elem_file, pyvars, elvars, libvars, outvars>>

CreateSolutionField ==
    /\ pc = "solution_field"
    /\ solution_field' = [n \in 1..nodes |-> SolutionInitialValue]
    /\ created' = Finished("solution_field")
    /\ Goto("counts")
    /\ UNCHANGED <<node_file, elem_file, pyvars, elvars, nodes, mesh,
                   meshElements, geometric_field, finalised, outvars>>

\* num_nodes and num_coords are read back from the library objects.
GetCounts ==
    /\ pc = "counts"
    /\ num_nodes' = nodes
    /\ num_coords' = CoordinateSystemDimension
    /\ Goto("nodes_list")
    /\ UNCHANGED <<node_file, elem_file, num_attributes, boundary_markers,
                   NodeNums, NodeCoords, elvars, libvars, outvars>>

\* A record that exchanges the y and z components.
NodeRecordSwapped(i, geo, sol) ==
    LET node == i + 1 IN
    <<node, geo[node][1], geo[node][3], geo[node][2], sol[node]>>

\* A record labelled with the loop index instead of the node number.
NodeRecordZeroBased(i, geo, sol) ==
    LET node == i + 1 IN
    <<i, geo[node][1], geo[node][2], geo[node][3], sol[node]>>

\* One pass of the cell "nodes_list": node = i + 1, then the three geometric
\* components and the solution value of that node.
NodeRecord(i, geo, sol) ==
    LET node == i + 1 IN
    <<node, geo[node][1], geo[node][2], geo[node][3], sol[node]>>

BuildNodesList ==
    /\ pc = "nodes_list"
    /\ nodes_list' = [r \in 1..num_nodes |->
                         NodeRecord(r - 1, geometric_field, solution_field)]
    /\ Goto("write_nodes")
    /\ UNCHANGED <<node_file, elem_file, pyvars, elvars, libvars,
                   elements_list, out_node_file, out_elem_file, arrays, points,
                   cells_array, solution_field_nodes, vtk_file>>

\* str(list) + "\n", as split() would cut it: "[a," "b," ... "z]".
StrList(toks) ==
    [j \in 1..Len(toks) |->
        [toks[j] EXCEPT !.d = IF Len(toks) = 1 THEN "[]"
                              ELSE IF j = 1 THEN "[,"
                              ELSE IF j = Len(toks) THEN "]"
                              ELSE ","]]

\* A record of nodes_list as text: an int, then four floats.
StrNodeRecord(rec) ==
    StrList(<<IntTok(rec[1]), FloatTok(rec[2]), FloatTok(rec[3]),
              FloatTok(rec[4]), FloatTok(rec[5])>>)

\* A record of elements_list as text: five ints.
StrElemRecord(rec) ==
    StrList([j \in 1..Len(rec) |-> IntTok(rec[j])])

WriteNodeFile ==
    /\ pc = "write_nodes"
    /\ out_node_file' = [r \in 1..Len(nodes_list) |-> StrNodeRecord(nodes_list[r])]
    /\ Goto("elements_list")
    /\ UNCHANGED <<node_file, elem_file, pyvars, elvars, libvars, nodes_list,
                   elements_list, out_elem_file, arrays, points, cells_array,
                   solution_field_nodes, vtk_file>>

\* A record that lists the nodes of the element from last to first.
ElemRecordReversed(j, elems, unset) ==
    LET elemidx == j + 1
        elemnodes == IF elems[elemidx] = <<>> THEN unset ELSE elems[elemidx]
    IN <<elemidx, elemnodes[4], elemnodes[3], elemnodes[2], elemnodes[1]>>

\* One pass of the cell "elements_list": elemidx = j + 1 and the four nodes
\* NodesGet returns for it (unset for an element NodesSet never defined).
ElemRecord(j, elems, unset) ==
    LET elemidx == j + 1
        elemnodes == IF elems[elemidx] = <<>> THEN unset ELSE elems[elemidx]
    IN <<elemidx, elemnodes[1], elemnodes[2], elemnodes[3], elemnodes[4]>>

\* Builds elements_list and writes CARDIOMYOCYTE_OUTPUT.ele.
BuildWriteElements ==
    /\ pc = "elements_list"
    /\ \E unset \in IF \E e \in DOMAIN meshElements : meshElements[e] = <<>>
                      THEN UnsetNodeLists ELSE {<<0, 0, 0, 0>>} :
         LET el == [r \in 1..mesh.numberOfElements |->
                       ElemRecord(r - 1, meshElements, unset)]
         IN /\ elements_list' = el
            /\ out_elem_file' = [r \in 1..Len(el) |-> StrElemRecord(el[r])]
    /\ Goto("arrays")
    /\ UNCHANGED <<node_file, elem_file, pyvars, elvars, libvars, nodes_list,
                   out_node_file, arrays, points, cells_array,
                   solution_field_nodes, vtk_file>>

\* The 0-based indices of nodes_list[:][1] ... nodes_list[:][4]: the slice [:]
\* copies the list, the index then picks one record of it.
ArrayRows == <<1, 2, 3, 4>>

\* The arrays saved (x, y, z, sol in this order) before the first index that
\* is out of range, if any.
SavedArrays(nl) ==
    [k \in {k \in 1..Len(ArrayRows) : ArrayRows[k] < Len(nl)} |->
        nl[ArrayRows[k] + 1]]

OutputArrays ==
    /\ pc = "arrays"
    /\ arrays' = SavedArrays(nodes_list)
    /\ IF \A k \in 1..Len(ArrayRows) : ArrayRows[k] < Len(nodes_list)
         THEN Goto("finalise") ELSE Raise("IndexError")
    /\ UNCHANGED <<node_file, elem_file, pyvars, elvars, libvars, nodes_list,
                   elements_list, out_node_file, out_elem_file, points,
                   cells_array, solution_field_nodes, vtk_file>>

Finalise ==
    /\ pc = "finalise"
    /\ finalised' = TRUE
    /\ Goto("vtk")
    /\ UNCHANGED <<node_file, elem_file, pyvars, elvars, created, nodes, mesh,
                   meshElements, geometric_field, solution_field, outvars>>

\* A row that keeps the 1-based node numbers.
CellRowOneBased(rec) == <<rec[2], rec[3], rec[4], rec[5]>>

\* One row of np.array(elements_list)[:, 1:5] - 1.
CellRow(rec) == <<rec[2] - 1, rec[3] - 1, rec[4] - 1, rec[5] - 1>>

\* The cell "Converting all code into vtk".  It runs after iron.Finalise():
\* the solution field read may still return the stored value or may fail.
ConvertToVtk ==
    /\ pc = "vtk"
    /\ points' = NodeCoords
    /\ IF Len(elements_list) = 0
         THEN /\ Raise("IndexError")
              /\ UNCHANGED <<cells_array, solution_field_nodes, vtk_file>>
         ELSE /\ cells_array' = [j \in 1..Len(elements_list) |->
                                    CellRow(elements_list[j])]
              /\ \E ok \in IF finalised /\ num_nodes > 0 THEN BOOLEAN ELSE {TRUE} :
                   IF ok
                     THEN /\ solution_field_nodes' =
                               [i \in 1..num_nodes |-> solution_field[i]]
                          /\ vtk_file' =
                               <<[points |-> points',
                                  cells |-> <<"tetra", cells_array'>>,
                                  solution |-> solution_field_nodes']>>
                          /\ Goto("done")
                     ELSE /\ solution_field_nodes' = Zeros(num_nodes)
                          /\ UNCHANGED vtk_file
                          /\ Raise("CMISSError")
    /\ UNCHANGED <<node_file, elem_file, pyvars, elvars, libvars, nodes_list,
                   elements_list, out_node_file, out_elem_file, arrays>>

Next ==
    \/ CreateCoordinateSystem
    \/ ReadNodes
    \/ ReadElems
    \/ CreateBasis
    \/ CreateRegion
    \/ InitialiseNodes
    \/ InitialiseMesh
    \/ InitialiseElements
    \/ FinaliseMesh
    \/ DecomposeMesh
    \/ CreateGeometricField
    \/ SetGeometricValues
    \/ UpdateGeometricField
    \/ CreateSolutionField
    \/ GetCounts
    \/ BuildNodesList
    \/ WriteNodeFile
    \/ BuildWriteElements
    \/ OutputArrays
    \/ Finalise
    \/ ConvertToVtk

Spec == Init /\ [][Next]_vars

\* ======================================================= Laplace notebook
\* "The basics": one action per code cell, top to bottom.
LapGoto(cell) == lap_pc' = cell /\ UNCHANGED <<meshiovars, mpivars>>
LapLeftStarted(o) == [lap_created EXCEPT ![o] = "started"]

LapFinished(o) == [lap_created EXCEPT ![o] = "finished"]

\* A field value the notebook sets, in tenths, and the value problem.Solve()
\* leaves at a degree of freedom it solves for.
Value(v) == [k |-> "set", v |-> v]
Solved == [k |-> "solved", v |-> 0]

\* from opencmiss.iron import iron
LoadLibrary ==
    /\ lap_pc = "import"
    /\ lap_created' = LapFinished("iron")
    /\ LapGoto("coordinate_system")
    /\ UNCHANGED <<lap_basis, generated_mesh, lap_mesh, lap_geometric_field,
                   dependent_field, boundary_conditions, firstNodeNumber,
                   lastNodeNumber, exnode, exelem>>

LaplaceCoordinateSystem ==
    /\ lap_pc = "coordinate_system"
    /\ lap_created' = LapFinished("coordinate_system")
    /\ LapGoto("basis")
    /\ UNCHANGED <<lap_basis, generated_mesh, lap_mesh, lap_geometric_field,
                   dependent_field, boundary_conditions, firstNodeNumber,
                   lastNodeNumber, exnode, exelem>>

\* A linear Lagrange basis in two xi directions, 3 Gauss points in each.
LaplaceBasis ==
    /\ lap_pc = "basis"
    /\ lap_basis' = [type |-> "LAGRANGE_HERMITE_TP", numberOfXi |-> 2,
                     interpolationXi |-> <<"LINEAR_LAGRANGE", "LINEAR_LAGRANGE">>,
                     quadratureNumberOfGaussXi |-> <<3, 3>>]
    /\ lap_created' = LapFinished("basis")
    /\ LapGoto("region")
    /\ UNCHANGED <<generated_mesh, lap_mesh, lap_geometric_field,
                   dependent_field, boundary_conditions, firstNodeNumber,
                   lastNodeNumber, exnode, exelem>>

LaplaceRegion ==
    /\ lap_pc = "region"
    /\ lap_created' = LapFinished("region")
    /\ LapGoto("generated_mesh")
    /\ UNCHANGED <<lap_basis, generated_mesh, lap_mesh, lap_geometric_field,
                   dependent_field, boundary_conditions, firstNodeNumber,
                   lastNodeNumber, exnode, exelem>>

\* The cell "Define mesh parameters": the notebook sets 1 by 3 elements on a
\* 1.0 by 1.0 rectangle; the two element counts are the parameters of the
\* tutorial and range over the meshes with at least one element a direction.
DefineMeshParameters ==
    /\ lap_pc = "generated_mesh"
    /\ \E number_global_x_elements \in 1..MaxXElements,
          number_global_y_elements \in 1..MaxYElements :
         generated_mesh' = [type |-> "REGULAR",
                            extent |-> <<Width, Height>>,
                            numberOfElements |-> <<number_global_x_elements,
                                                   number_global_y_elements>>]
    /\ lap_created' = [lap_created EXCEPT !["generated_mesh"] = "started"]
    /\ LapGoto("mesh")
    /\ UNCHANGED <<lap_basis, lap_mesh, lap_geometric_field, dependent_field,
                   boundary_conditions, firstNodeNumber, lastNodeNumber,
                   exnode, exelem>>

\* The regular mesh of nx by ny bilinear elements: (nx+1)(ny+1) nodes numbered
\* from 1 row by row, x running fastest; element (ex, ey) has the nodes at its
\* four corners.
NumberOfNodes(nx, ny) == (nx + 1) * (ny + 1)
NodeAt(nx, ix, iy) == iy * (nx + 1) + ix + 1
RegularMesh(nx, ny) ==
    [numberOfNodes |-> NumberOfNodes(nx, ny),
     numberOfElements |-> nx * ny,
     elements |-> [e \in 1..(nx * ny) |->
                     LET ex == (e - 1) % nx
                         ey == (e - 1) \div nx
                     IN <<NodeAt(nx, ex, ey), NodeAt(nx, ex + 1, ey),
                          NodeAt(nx, ex, ey + 1), NodeAt(nx, ex + 1, ey + 1)>>]]

\* generated_mesh.CreateFinish(mesh_user_number, mesh)
GeneratedMeshCreateFinish ==
    /\ lap_pc = "mesh"
    /\ lap_mesh' = RegularMesh(generated_mesh.numberOfElements[1],
                               generated_mesh.numberOfElements[2])
    /\ lap_created' = [lap_created EXCEPT !["generated_mesh"] = "finished",
                                          !["mesh"] = "finished"]
    /\ LapGoto("decomposition")
    /\ UNCHANGED <<lap_basis, generated_mesh, lap_geometric_field,
                   dependent_field, boundary_conditions, firstNodeNumber,
                   lastNodeNumber, exnode, exelem>>

LaplaceDecomposition ==
    /\ lap_pc = "decomposition"
    /\ lap_created' = LapFinished("decomposition")
    /\ LapGoto("geometric_field")
    /\ UNCHANGED <<lap_basis, generated_mesh, lap_mesh, lap_geometric_field,
                   dependent_field, boundary_conditions, firstNodeNumber,
                   lastNodeNumber, exnode, exelem>>

\* A new geometric field: every component of every node is zero.
LaplaceGeometricField ==
    /\ lap_pc = "geometric_field"
    /\ lap_geometric_field' = [n \in 1..lap_mesh.numberOfNodes |-> <<0, 0>>]
    /\ lap_created' = LapFinished("geometric_field")
    /\ LapGoto("geometric_parameters")
    /\ UNCHANGED <<lap_basis, generated_mesh, lap_mesh, dependent_field,
                   boundary_conditions, firstNodeNumber, lastNodeNumber,
                   exnode, exelem>>

\* The position of node n of the regular mesh, each coordinate a fraction
\* <<numerator, denominator>>: ix * width / nx, iy * height / ny.
RegularPosition(gm, n) ==
    LET nx == gm.numberOfElements[1]
        ny == gm.numberOfElements[2]
        ix == (n - 1) % (nx + 1)
        iy == (n - 1) \div (nx + 1)
    IN <<<<ix * gm.extent[1], nx>>, <<iy * gm.extent[2], ny>>>>

\* generated_mesh.GeometricParametersCalculate(geometric_field)
GeometricParametersCalculate ==
    /\ lap_pc = "geometric_parameters"
    /\ lap_geometric_field' = [n \in 1..lap_mesh.numberOfNodes |->
                                  RegularPosition(generated_mesh, n)]
    /\ LapGoto("dependent_field")
    /\ UNCHANGED <<lap_created, lap_basis, generated_mesh, lap_mesh,
                   dependent_field, boundary_conditions, firstNodeNumber,
                   lastNodeNumber, exnode, exelem>>

\* dependent_field = iron.Field(): an object not yet created.
DeclareDependentField ==
    /\ lap_pc = "dependent_field"
    /\ lap_created' = [lap_created EXCEPT !["dependent_field"] = "initialised"]
    /\ LapGoto("equations_set_field")
    /\ UNCHANGED <<lap_basis, generated_mesh, lap_mesh, lap_geometric_field,
                   dependent_field, boundary_conditions, firstNodeNumber,
                   lastNodeNumber, exnode, exelem>>

DeclareEquationsSetField ==
    /\ lap_pc = "equations_set_field"
    /\ lap_created' = [lap_created EXCEPT !["equations_set_field"] = "initialised",
                                          !["equations_set"] = "initialised"]
    /\ LapGoto("equations_set")
    /\ UNCHANGED <<lap_basis, generated_mesh, lap_mesh, lap_geometric_field,
                   dependent_field, boundary_conditions, firstNodeNumber,
                   lastNodeNumber, exnode, exelem>>

\* The standard Laplace equations set; DependentCreateFinish creates the
\* dependent field: one component at every node of the mesh, zero.
CreateEquationsSet ==
    /\ lap_pc = "equations_set"
    /\ dependent_field' = [n \in 1..lap_mesh.numberOfNodes |-> Value(0)]
    /\ lap_created' = [lap_created EXCEPT !["equations_set_field"] = "finished",
                                          !["dependent_field"] = "finished",
                                          !["equations_set"] = "finished"]
    /\ LapGoto("equations")
    /\ UNCHANGED <<lap_basis, generated_mesh, lap_mesh, lap_geometric_field,
                   boundary_conditions, firstNodeNumber, lastNodeNumber,
                   exnode, exelem>>

CreateEquations ==
    /\ lap_pc = "equations"
    /\ lap_created' = LapFinished("equations")
    /\ LapGoto("initialise")
    /\ UNCHANGED <<lap_basis, generated_mesh, lap_mesh, lap_geometric_field,
                   dependent_field, boundary_conditions, firstNodeNumber,
                   lastNodeNumber, exnode, exelem>>

\* dependent_field.ComponentValuesInitialiseDP(U, VALUES, 1, 0.5)
InitialiseDependentField ==
    /\ lap_pc = "initialise"
    /\ dependent_field' = [n \in DOMAIN dependent_field |-> Value(InitialValue)]
    /\ LapGoto("problem")
    /\ UNCHANGED <<lap_created, lap_basis, generated_mesh, lap_mesh,
                   lap_geometric_field, boundary_conditions, firstNodeNumber,
                   lastNodeNumber, exnode, exelem>>

CreateProblem ==
    /\ lap_pc = "problem"
    /\ lap_created' = LapFinished("problem")
    /\ LapGoto("control_loops")
    /\ UNCHANGED <<lap_basis, generated_mesh, lap_mesh, lap_geometric_field,
                   dependent_field, boundary_conditions, firstNodeNumber,
                   lastNodeNumber, exnode, exelem>>

CreateControlLoops ==
    /\ lap_pc = "control_loops"
    /\ lap_created' = LapFinished("control_loops")
    /\ LapGoto("solvers")
    /\ UNCHANGED <<lap_basis, generated_mesh, lap_mesh, lap_geometric_field,
                   dependent_field, boundary_conditions, firstNodeNumber,
                   lastNodeNumber, exnode, exelem>>

CreateSolvers ==
    /\ lap_pc = "solvers"
    /\ lap_created' = LapFinished("solver")
    /\ LapGoto("solver_equations")
    /\ UNCHANGED <<lap_basis, generated_mesh, lap_mesh, lap_geometric_field,
                   dependent_field, boundary_conditions, firstNodeNumber,
                   lastNodeNumber, exnode, exelem>>

CreateSolverEquations ==
    /\ lap_pc = "solver_equations"
    /\ lap_created' = LapFinished("solver_equations")
    /\ LapGoto("boundary_conditions")
    /\ UNCHANGED <<lap_basis, generated_mesh, lap_mesh, lap_geometric_field,
                   dependent_field, boundary_conditions, firstNodeNumber,
                   lastNodeNumber, exnode, exelem>>

\* The degrees of freedom of the dependent field: (node, component).
DegreesOfFreedom(field) == (DOMAIN field) \X {DependentComponent}

\* solver_equations.BoundaryConditionsCreateStart(boundary_conditions): no
\* degree of freedom carries a condition.
FreeConditions(field) == [dof \in DegreesOfFreedom(field) |-> "FREE"]

\* boundary_conditions.SetNode(dependent_field, U, 1, 1, node, component,
\* condition, value): the condition is recorded for the degree of freedom and
\* the value set in the field.
SetNode(st, node, component, condition, value) ==
    [conditions |-> [st.conditions EXCEPT ![<<node, component>>] = condition],
     field |-> [st.field EXCEPT ![node] = Value(value)]]

\* A last node number taken from the element count.
NumberOfElementsGet(m) == m.numberOfElements

\* region.NodesGet(nodes); nodes.NumberOfNodesGet()
NumberOfNodesGet(m) == m.numberOfNodes

\* The cell "Identify first and last node number ... boundary conditions".
DefineBoundaryConditions ==
    /\ lap_pc = "boundary_conditions"
    /\ firstNodeNumber' = 1
    /\ lastNodeNumber' = NumberOfNodesGet(lap_mesh)
    /\ LET st0 == [conditions |-> FreeConditions(dependent_field),
                   field |-> dependent_field]
           st1 == SetNode(st0, firstNodeNumber', DependentComponent,
                          "FIXED", FirstNodeValue)
           st2 == SetNode(st1, lastNodeNumber', DependentComponent,
                          "FIXED", LastNodeValue)
       IN /\ boundary_conditions' = st2.conditions
          /\ dependent_field' = st2.field
    /\ lap_created' = LapFinished("boundary_conditions")
    /\ LapGoto("solve")
    /\ UNCHANGED <<lap_basis, generated_mesh, lap_mesh, lap_geometric_field,
                   exnode, exelem>>

\* A solve that also writes the fixed degrees of freedom.
ProblemSolveOverwritingFixed(geometric, dependent, conditions) ==
    [geometric |-> geometric,
     dependent |-> [n \in DOMAIN dependent |-> Solved]]

\* A solve that moves the mesh to the solution (a deformed geometry).
ProblemSolveDeforming(geometric, dependent, conditions) ==
    [geometric |-> [n \in DOMAIN geometric |-> <<<<0, 1>>, <<0, 1>>>>],
     dependent |-> [n \in DOMAIN dependent |->
                      IF conditions[<<n, DependentComponent>>] = "FIXED"
                        THEN dependent[n] ELSE Solved]]

\* problem.Solve(): the field storage after the solve.  The solution is
\* found for the free degrees of freedom; a fixed one keeps the value of its
\* boundary condition, and the geometry is an input.
ProblemSolve(geometric, dependent, conditions) ==
    [geometric |-> geometric,
     dependent |-> [n \in DOMAIN dependent |->
                      IF conditions[<<n, DependentComponent>>] = "FIXED"
                        THEN dependent[n] ELSE Solved]]

SolveProblem ==
    /\ lap_pc = "solve"
    /\ LET r == ProblemSolve(lap_geometric_field, dependent_field,
                             boundary_conditions)
       IN /\ lap_geometric_field' = r.geometric
          /\ dependent_field' = r.dependent
    /\ LapGoto("export")
    /\ UNCHANGED <<lap_created, lap_basis, generated_mesh, lap_mesh,
                   boundary_conditions, firstNodeNumber, lastNodeNumber,
                   exnode, exelem>>

\* fields.NodesExport / fields.ElementsExport("laplace_equation", "FORTRAN"),
\* fields.Finalise()
ExportResults ==
    /\ lap_pc = "export"
    /\ exnode' = [n \in DOMAIN dependent_field |->
                    [geometry |-> lap_geometric_field[n],
                     dependent |-> dependent_field[n]]]
    /\ exelem' = lap_mesh.elements
    /\ lap_created' = [lap_created EXCEPT !["fields"] = "finalised"]
    /\ LapGoto("finalise")
    /\ UNCHANGED <<lap_basis, generated_mesh, lap_mesh, lap_geometric_field,
                   dependent_field, boundary_conditions, firstNodeNumber,
                   lastNodeNumber>>

\* iron.Finalise(): every object of the library is released.
LaplaceFinalise ==
    /\ lap_pc = "finalise"
    /\ lap_created' = [o \in LaplaceObjects |->
                         IF lap_created[o] = "none" THEN "none" ELSE "finalised"]
    /\ LapGoto("done")
    /\ UNCHANGED <<lap_basis, generated_mesh, lap_mesh, lap_geometric_field,
                   dependent_field, boundary_conditions, firstNodeNumber,
                   lastNodeNumber, exnode, exelem>>

LaplaceNext ==
    \/ LoadLibrary
    \/ LaplaceCoordinateSystem
    \/ LaplaceBasis
    \/ LaplaceRegion
    \/ DefineMeshParameters
    \/ GeneratedMeshCreateFinish
    \/ LaplaceDecomposition
    \/ LaplaceGeometricField
    \/ GeometricParametersCalculate
    \/ DeclareDependentField
    \/ DeclareEquationsSetField
    \/ CreateEquationsSet
    \/ CreateEquations
    \/ InitialiseDependentField
    \/ CreateProblem
    \/ CreateControlLoops
    \/ CreateSolvers
    \/ CreateSolverEquations
    \/ DefineBoundaryConditions
    \/ SolveProblem
    \/ ExportResults
    \/ LaplaceFinalise

LaplaceSpec == Init /\ [][LaplaceNext]_vars

\* ===================================================== the parallel run
\* The cell "Set geometric field values" run by every process of an MPI run:
\* each process has read the same node file and holds the same decomposition,
\* and walks the node lines on its own; the geometric field is distributed.

\* The node files of the parallel run: every line as the header declares it,
\* the ids in the patterns of IdPatterns.
ParallelNodeFiles ==
    { NodeFileOf(N, CoordinateSystemDimension, 0, 0, NodeHeaderTargets, N,
                 CoordinateSystemDimension, 0, pat) :
        N \in 1..MaxParallelNodes, pat \in IdPatterns }

\* mpiexec with P processes, each running the notebook up to the loop: the
\* file is read, the field created with 0 everywhere, and the decomposition
\* gives every node of the mesh one domain among the P processes.
StartProcesses ==
    /\ numberOfComputationalNodes = 0
    /\ \E P \in 1..MaxComputationalNodes, f \in ParallelNodeFiles :
         LET r == ReadNodeFile(f) IN
         /\ r.err = "none"
         /\ numberOfComputationalNodes' = P
         /\ parallel_file' = f
         /\ \E d \in [1..r.num_nodes -> 0..(P - 1)] : nodeDomains' = d
         /\ loop_i' = [p \in 0..(P - 1) |-> 0]
         /\ loop_err' = [p \in 0..(P - 1) |-> "none"]
         /\ distributed_field' =
               [n \in 1..r.num_nodes |-> Zeros(CoordinateSystemDimension)]
         /\ writers' = [n \in 1..r.num_nodes |-> {}]
    /\ UNCHANGED <<meshiovars, lapvars>>

WritesEveryNode(nodeDomain, computationalNodeNumber) == TRUE

\* if nodeDomain == computationalNodeNumber
WritesNode(nodeDomain, computationalNodeNumber) ==
    nodeDomain = computationalNodeNumber

\* One pass of "for i in range(num_nodes)" in process p
\* (computationalNodeNumber = p); writers records which processes have
\* called ParameterSetUpdateNodeDP for a node.
LoopPass(p) ==
    /\ numberOfComputationalNodes > 0
    /\ loop_err[p] = "none"
    /\ LET r == ReadNodeFile(parallel_file)
           i == loop_i[p]
       IN /\ i < r.num_nodes
          /\ LET node == NodeOfLine(r.NodeNums, i) IN
             IF node \notin 1..r.num_nodes
               THEN /\ loop_err' = [loop_err EXCEPT ![p] = "CMISSError"]
                    /\ UNCHANGED <<loop_i, distributed_field, writers>>
             ELSE /\ loop_i' = [loop_i EXCEPT ![p] = i + 1]
                  /\ IF WritesNode(nodeDomains[node], p)
                       THEN /\ distributed_field' =
                                 UpdateNodeDP(distributed_field, node,
                                              r.NodeCoords[i + 1])
                            /\ writers' = [writers EXCEPT ![node] = @ \cup {p}]
                       ELSE UNCHANGED <<distributed_field, writers>>
                  /\ UNCHANGED loop_err
    /\ UNCHANGED <<numberOfComputationalNodes, parallel_file, nodeDomains>>
    /\ UNCHANGED <<meshiovars, lapvars>>

ParallelNext ==
    \/ StartProcesses
    \/ \E p \in DOMAIN loop_i : LoopPass(p)

ParallelSpec == Init /\ [][ParallelNext]_vars

\* ============================================================== claims
\* The cells in the order the notebook runs them.
CellOrder == <<"coordinate_system", "read_nodes", "read_elems", "basis",
               "region", "nodes", "mesh", "elements", "mesh_finish",
               "decomposition", "geometric_field", "geometric_values",
               "geometric_update", "solution_field", "counts", "nodes_list",
               "write_nodes", "elements_list", "arrays", "finalise", "vtk",
               "done">>
CellIndex(c) == CHOOSE i \in 1..Len(CellOrder) : CellOrder[i] = c
\* The cell the run is at: the next to run, or the one that raised.
Reached == IF pc = "aborted" THEN err_cell ELSE pc
Completed(cell) == CellIndex(Reached) > CellIndex(cell)
FailedIn(cell) == pc = "aborted" /\ err_cell = cell
Attempted(cell) == Completed(cell) \/ FailedIn(cell)

\* What the node file says and holds.
NodeHeaderFields == Len(node_file[1])
DeclaredNodes == node_file[1][1].v
DeclaredDimension == node_file[1][2].v
DeclaredAttributes == node_file[1][3].v
DeclaredMarkers == node_file[1][4].v
SuppliedNodeLines == Len(node_file) - 1
NodeLineTokens(i) == Len(node_file[i + 1])
\* Rows of NodeNums that hold a parsed id (the ids of the files are >= 1).
ParsedNodes == Cardinality({i \in 1..Len(NodeNums) : NodeNums[i][1] # 0})

NodeFileTruncated ==
    /\ Attempted("read_nodes")
    /\ NodeHeaderFields = NodeHeaderTargets
    /\ SuppliedNodeLines < DeclaredNodes

WantedNodeTokens ==
    1 + DeclaredDimension + DeclaredAttributes
      + (IF DeclaredMarkers # 0 THEN 1 ELSE 0)

\* C2: with a header (node_count, dimension 2 or 3, attribute_count,
\* boundary_marker_flag) and enough lines, the node reader refuses the file
\* exactly when one of its node lines does not have
\* 1 + dimension + attribute_count + (1 if boundary_marker_flag) tokens.
C2_NodeLineTokenCount ==
    ( /\ Attempted("read_nodes")
      /\ NodeHeaderFields = NodeHeaderTargets
      /\ DeclaredDimension \in {2, 3}
      /\ SuppliedNodeLines >= DeclaredNodes )
    => ( FailedIn("read_nodes")
         <=> \E i \in 1..DeclaredNodes : NodeLineTokens(i) # WantedNodeTokens )

\* The node ids read from the node file.
FileNodeIds == {NodeNums[i][1] : i \in 1..Len(NodeNums)}
\* The elements NodesSet has defined.
DefinedElements == {e \in DOMAIN meshElements : meshElements[e] # <<>>}

\* The ids on the element lines that were read.
FileElemIds == {Elemindex[j][1].v : j \in 1..Len(Elemindex)}

\* Both readers have run, the files describe a tetrahedral mesh in 3-D and
\* every line has the fields its header announces: an id and three decimal
\* coordinates plus the announced extras, an id and four node ids plus the
\* announced attributes.
FilesMatchHeaders ==
    /\ Completed("read_elems")
    /\ DeclaredDimension = 3
    /\ SuppliedNodeLines = DeclaredNodes
    /\ \A i \in 1..DeclaredNodes :
          /\ NodeLineTokens(i) = WantedNodeTokens
          /\ \A c \in 2..(1 + DeclaredDimension) : node_file[i + 1][c].k = "float"
    /\ elem_file[1][2].v = 4
    /\ Len(elem_file) - 1 = elem_file[1][1].v
    /\ \A j \in 1..(Len(elem_file) - 1) :
          Len(elem_file[j + 1]) = 1 + elem_file[1][2].v + elem_file[1][3].v
\* ... and the node ids are 1..N and the element ids 1..M, in any line order.
WellFormedInput ==
    /\ FilesMatchHeaders
    /\ FileNodeIds = 1..DeclaredNodes
    /\ FileElemIds = 1..elem_file[1][1].v

\* C3: for files whose lines match their headers, every node id of every
\* element defined in the mesh is one of the node ids read from the node file
\* (an element line naming another id stops the load before the element is
\* defined).
C3_NoDanglingNodeReference ==
    FilesMatchHeaders =>
        \A e \in DefinedElements :
            \A k \in 1..Len(meshElements[e]) : meshElements[e][k] \in FileNodeIds

Det3(u, v, w) ==
      u[1] * (v[2] * w[3] - v[3] * w[2])
    - u[2] * (v[1] * w[3] - v[3] * w[1])
    + u[3] * (v[1] * w[2] - v[2] * w[1])
Minus(a, b) == <<a[1] - b[1], a[2] - b[2], a[3] - b[3]>>
\* The orientation determinant of a tetrahedron: positive for the winding of
\* the reference element, negative for the mirrored one, 0 for a flat one.
Orientation(nl) ==
    LET p(k) == geometric_field[nl[k]] IN
    Det3(Minus(p(2), p(1)), Minus(p(3), p(1)), Minus(p(4), p(1)))

\* C4: no run on well-formed files writes an output file while the mesh holds
\* an element listed in the mirrored winding (negative orientation
\* determinant): such an element is rejected before any export.
C4_InvertedElementRejected ==
    Completed("write_nodes") /\ WellFormedInput =>
        \A e \in DefinedElements : Orientation(meshElements[e]) >= 0

\* C5: for a mesh loaded from well-formed files, the written node and element
\* files, read back by the node and element readers, give the node ids, the
\* coordinates of each node and the ordered node ids of each element of the
\* mesh they were written from.
C5_RoundTrip ==
    Completed("elements_list") /\ WellFormedInput =>
        LET rn == ReadNodeFile(out_node_file)
            re == ReadElemFile(out_elem_file)
        IN /\ rn.err = "none"
           /\ re.err = "none"
           /\ rn.num_nodes = nodes
           /\ \A n \in 1..nodes :
                 \E i \in 1..rn.num_nodes :
                     /\ rn.NodeNums[i][1] = n
                     /\ rn.NodeCoords[i] = geometric_field[n]
           /\ re.num_elements = mesh.numberOfElements
           /\ \A e \in DefinedElements :
                 \E j \in 1..re.num_elements :
                     /\ re.Elemindex[j][1].v = e
                     /\ NodesListOf(re.ElemMap[j]) = meshElements[e]

\* C6: every entry of the cell-connectivity array is the node id at the same
\* place of the same element, minus 1: of the record of elements_list, and of
\* the node list the mesh holds for an element defined at import, whose
\* entries then lie in 0..N-1.
C6_ZeroBasedConnectivity ==
    cells_array # <<>> =>
        /\ Len(cells_array) = mesh.numberOfElements
        /\ \A j \in 1..Len(cells_array) :
              /\ Len(cells_array[j]) = NodesPerElementRead
              /\ \A k \in 1..NodesPerElementRead :
                    /\ cells_array[j][k] = elements_list[j][k + 1] - 1
                    /\ j \in DefinedElements =>
                          /\ cells_array[j][k] = meshElements[j][k] - 1
                          /\ cells_array[j][k] \in 0..(nodes - 1)

C6_Witness ==
    /\ pc = "done" /\ WellFormedInput
    /\ DefinedElements = 1..MaxElems
    /\ cells_array[1] = <<0, 1, 2, 3>>

\* C7: in the vtk export of a run on well-formed files (node ids 1..N in any
\* line order), row k of points holds the coordinates of node k and entry k
\* of the solution array the solution value of node k, the node that
\* connectivity value k - 1 names.
C7_VtkArraysAligned ==
    vtk_file # <<>> /\ WellFormedInput =>
        \A k \in 1..nodes :
            /\ points[k] = geometric_field[k]
            /\ solution_field_nodes[k] = solution_field[k]

\* C8: nodes_list has one record per mesh node, in ascending node id, and the
\* record of node n is (n, x, y, z, solution) with the three geometric field
\* values and the solution field value stored for n.
C8_NodeListRecords ==
    Completed("nodes_list") =>
        /\ Len(nodes_list) = nodes
        /\ \A n \in 1..nodes :
              nodes_list[n] = <<n, geometric_field[n][1], geometric_field[n][2],
                                geometric_field[n][3], solution_field[n]>>

C8_Witness ==
    /\ Completed("nodes_list") /\ WellFormedInput
    /\ nodes >= 4
    /\ nodes_list[3] = <<3, 0, 1, 0, SolutionInitialValue>>
    /\ nodes_list[4] = <<4, 0, 0, 1, SolutionInitialValue>>

\* C9: elements_list has one record per mesh element; record j starts with
\* the element id j, and for an element defined at import the four ids after
\* it are the node list NodesSet stored for j, in the order of a line of the
\* element file that carries the id j.
C9_ElementListRecords ==
    Completed("elements_list") =>
        /\ Len(elements_list) = mesh.numberOfElements
        /\ \A j \in 1..Len(elements_list) :
              /\ Len(elements_list[j]) = 1 + NodesPerElementRead
              /\ elements_list[j][1] = j
              /\ j \in DefinedElements =>
                    /\ SubSeq(elements_list[j], 2, 5) = meshElements[j]
                    /\ \E i \in 1..num_elements :
                          /\ Elemindex[i][1].v = j
                          /\ NodesListOf(ElemMap[i]) = SubSeq(elements_list[j], 2, 5)

C9_Witness ==
    /\ Completed("elements_list") /\ WellFormedInput
    /\ Len(elements_list) >= 2
    /\ elements_list[2] = <<2, 2, 4, 3, 5>>

\* The ids the export addresses.
ExportedNodeIds == {nodes_list[i][1] : i \in 1..Len(nodes_list)}
ExportedElemIds == {elements_list[j][1] : j \in 1..Len(elements_list)}

\* C10: when the ids of the file are exactly 1..N the export addresses
\* exactly the ids the import wrote; when they are not, the export addresses
\* an id the import never defined.  For the node ids and the element ids.
C10_ContiguousIds ==
    /\ Completed("nodes_list") =>
          IF FileNodeIds = 1..DeclaredNodes
            THEN ExportedNodeIds = FileNodeIds
            ELSE \E id \in ExportedNodeIds : id \notin FileNodeIds
    /\ Completed("elements_list") =>
          IF FileElemIds = 1..num_elements
            THEN ExportedElemIds = FileElemIds /\ ExportedElemIds = DefinedElements
            ELSE \E id \in ExportedElemIds : id \notin DefinedElements

C10_Witness ==
    /\ Completed("elements_list")
    /\ FileNodeIds # 1..DeclaredNodes
    /\ FileElemIds # 1..num_elements
    /\ Cardinality(ExportedNodeIds \ FileNodeIds) = 1
    /\ Cardinality(ExportedElemIds \ DefinedElements) = 1

\* The coordinates the node file gives for node id n (ids 1..N, any order).
FileCoords(n) == NodeCoords[CHOOSE i \in 1..Len(NodeNums) : NodeNums[i][1] = n]
FileOrientation(nl) ==
    Det3(Minus(FileCoords(nl[2]), FileCoords(nl[1])),
         Minus(FileCoords(nl[3]), FileCoords(nl[1])),
         Minus(FileCoords(nl[4]), FileCoords(nl[1])))
\* The node ids on line j of the element file.
ElemLineNodes(j) == <<elem_file[j + 1][2].v, elem_file[j + 1][3].v,
                      elem_file[j + 1][4].v, elem_file[j + 1][5].v>>

\* The input has one of the fatal faults: a header with the wrong number of
\* fields, fewer lines than the header declares, an element line that names a
\* node id the node file does not define, an element listed in the mirrored
\* winding.
MalformedHeader ==
    \/ Attempted("read_nodes") /\ NodeHeaderFields # NodeHeaderTargets
    \/ Attempted("read_elems") /\ Len(elem_file[1]) # ElemHeaderTargets
TruncatedFile ==
    \/ NodeFileTruncated
    \/ /\ Attempted("read_elems")
       /\ Len(elem_file[1]) = ElemHeaderTargets
       /\ Len(elem_file) - 1 < elem_file[1][1].v
DanglingNodeReference ==
    /\ FilesMatchHeaders
    /\ \E j \in 1..(Len(elem_file) - 1) :
          \E k \in 1..NodesPerElementRead : ElemLineNodes(j)[k] \notin FileNodeIds
InvertedElement ==
    /\ WellFormedInput
    /\ \A j \in 1..(Len(elem_file) - 1) :
          \A k \in 1..NodesPerElementRead : ElemLineNodes(j)[k] \in FileNodeIds
    /\ \E j \in 1..(Len(elem_file) - 1) : FileOrientation(ElemLineNodes(j)) < 0
FatalInput ==
    MalformedHeader \/ TruncatedFile \/ DanglingNodeReference \/ InvertedElement

\* C17: a run whose input has a fatal fault never finishes and writes
\* nothing: no node list, no element list, no output file, no saved array and
\* no vtk file.
C17_FatalErrorAborts ==
    FatalInput =>
        /\ pc # "done"
        /\ nodes_list = <<>> /\ out_node_file = <<>>
        /\ elements_list = <<>> /\ out_elem_file = <<>>
        /\ arrays = <<>> /\ vtk_file = <<>>

\* ------------------------------------------------ Laplace notebook claims
\* The cells of the Laplace notebook in the order it runs them.
LaplaceCellOrder ==
    <<"import", "coordinate_system", "basis", "region", "generated_mesh",
      "mesh", "decomposition", "geometric_field", "geometric_parameters",
      "dependent_field", "equations_set_field", "equations_set", "equations",
      "initialise", "problem", "control_loops", "solvers", "solver_equations",
      "boundary_conditions", "solve", "export", "finalise", "done">>
LaplaceCellIndex(c) ==
    CHOOSE i \in 1..Len(LaplaceCellOrder) : LaplaceCellOrder[i] = c
LaplaceCompleted(cell) == LaplaceCellIndex(lap_pc) > LaplaceCellIndex(cell)

\* The run of the notebook as written: 1 by 3 elements.
TutorialMesh ==
    /\ LaplaceCompleted("generated_mesh")
    /\ generated_mesh.numberOfElements = <<DefaultXElements, DefaultYElements>>

FixedDofs == {d \in DOMAIN boundary_conditions : boundary_conditions[d] = "FIXED"}
FreeDofs == {d \in DOMAIN boundary_conditions : boundary_conditions[d] = "FREE"}

\* C11: from the end of the boundary-condition cell on, every degree of
\* freedom (node, component) of the dependent field is fixed or free and none
\* is both; the fixed ones are exactly (node 1, component 1) and (last node,
\* component 1).
C11_FixedAndFreeDofs ==
    LaplaceCompleted("boundary_conditions") =>
        /\ DOMAIN boundary_conditions = DegreesOfFreedom(dependent_field)
        /\ FixedDofs \cup FreeDofs = DegreesOfFreedom(dependent_field)
        /\ FixedDofs \cap FreeDofs = {}
        /\ FixedDofs = {<<1, 1>>, <<lap_mesh.numberOfNodes, 1>>}
        /\ firstNodeNumber = 1 /\ lastNodeNumber = lap_mesh.numberOfNodes

C11_Witness ==
    /\ lap_pc = "solve" /\ TutorialMesh
    /\ FixedDofs = {<<1, 1>>, <<8, 1>>}
    /\ Cardinality(FreeDofs) = 6

SolveFrameStep ==
    lap_pc \in {"solve", "export"} =>
        /\ lap_mesh' = lap_mesh
        /\ generated_mesh' = generated_mesh
        /\ lap_basis' = lap_basis
        /\ lap_geometric_field' = lap_geometric_field
        /\ boundary_conditions' = boundary_conditions
        /\ lap_pc = "export" => dependent_field' = dependent_field

MeshTopologyStep ==
    /\ nodes' # nodes => pc = "nodes"
    /\ mesh' # mesh => pc = "mesh"
    /\ meshElements' # meshElements =>
          /\ pc = "elements"
          /\ created["mesh"] = "started"
          /\ created["meshElements"] = "none"
          /\ created'["meshElements"] \in {"started", "finished"}
          /\ created'["mesh"] = "started"
    /\ created["mesh"] = "finished" =>
          UNCHANGED <<nodes, mesh, meshElements>>

\* C21: the topology is built once and then left alone.  The node lists are
\* set in one step only, the step of the cell that holds
\* meshElements.CreateStart, the NodesSet loop and meshElements.CreateFinish,
\* taken while the mesh is started and not yet finished; the node count and
\* the element count are each set in one earlier step; and once
\* mesh.CreateFinish() has been called no step changes the node count, the
\* element count or any element's node list.
C21_TopologyBuiltOnce == [][MeshTopologyStep]_vars

C21_Witness ==
    /\ pc = "done" /\ WellFormedInput
    /\ created["mesh"] = "finished" /\ created["meshElements"] = "finished"
    /\ nodes = 5 /\ mesh.numberOfElements = 2
    /\ meshElements = <<<<1, 2, 3, 4>>, <<2, 3, 4, 5>>>>

\* ------------------------------------------------- Laplace run, continued
\* The object a stage is handed has been finished when the stage starts.
LaplaceStageReady ==
    /\ lap_pc = "decomposition" => lap_created["mesh"] = "finished"
    /\ lap_pc = "geometric_field" => lap_created["decomposition"] = "finished"
    /\ lap_pc = "equations_set" => lap_created["geometric_field"] = "finished"
    /\ lap_pc = "equations" => lap_created["equations_set"] = "finished"
    /\ lap_pc = "solver_equations" =>
          /\ lap_created["equations_set"] = "finished"
          /\ lap_created["solver"] = "finished"
    /\ lap_pc = "boundary_conditions" =>
          lap_created["solver_equations"] = "finished"
    /\ lap_pc = "solve" => lap_created["boundary_conditions"] = "finished"
    /\ lap_pc = "export" => \E n \in DOMAIN dependent_field :
                                dependent_field[n] = Solved

LaplaceOrderStep ==
    /\ LaplaceCellIndex(lap_pc') = LaplaceCellIndex(lap_pc) + 1
    /\ LaplaceStageReady /\ LaplaceStageReady'
    /\ (\E n \in DOMAIN dependent_field' :
            /\ dependent_field'[n] = Solved
            /\ n \in DOMAIN dependent_field => dependent_field[n] # Solved) =>
          /\ lap_pc = "solve"
          /\ lap_created["boundary_conditions"] = "finished"
          /\ \A n \in DOMAIN dependent_field : dependent_field[n] # Solved

\* C22: the Laplace run takes its stages in one fixed order, every step moving
\* to the next stage of the list and none back: mesh creation, decomposition,
\* geometric field, equations set, boundary conditions, Solve, export.  Each
\* stage starts with the object it depends on finished, and problem.Solve()
\* acts in one step only, the one after BoundaryConditionsCreateFinish, on a
\* field no earlier step has solved.
C22_LinearStageOrder == [][LaplaceOrderStep]_vars

C22_Witness ==
    /\ lap_pc = "export" /\ TutorialMesh
    /\ lap_created["boundary_conditions"] = "finished"
    /\ lap_created["mesh"] = "finished"
    /\ dependent_field[4] = Solved
    /\ exnode = <<>>

\* ------------------------------------------------------ the parallel run
ParallelNodes == DOMAIN writers
\* The ids on the node lines of the file the processes read.
ParallelFileIds ==
    {ReadNodeFile(parallel_file).NodeNums[i][1] : i \in ParallelNodes}
\* Every process has come out of its loop.
LoopsFinished ==
    /\ numberOfComputationalNodes > 0
    /\ \A p \in DOMAIN loop_i :
          loop_err[p] = "none" /\ loop_i[p] = Cardinality(ParallelNodes)

\* C23 as stated, for every node file the reader accepts: when every process
\* has run the loop, each node of the mesh has one owner among the processes
\* and its coordinates were written by exactly one process.
C23_EveryNodeWrittenOnce ==
    LoopsFinished =>
        \A n \in ParallelNodes :
            /\ nodeDomains[n] \in 0..(numberOfComputationalNodes - 1)
            /\ Cardinality(writers[n]) = 1

\* C23 (amended): at every moment of the parallel run a node has been written
\* by no process other than its owner, so never by two; and when every
\* process has run the loop over a file whose ids are exactly the node ids
\* 1..N of the mesh, every node has been written by its owner, none is left
\* unwritten.
C23_OwnerWritesNode ==
    /\ \A n \in ParallelNodes :
          /\ nodeDomains[n] \in 0..(numberOfComputationalNodes - 1)
          /\ writers[n] \subseteq {nodeDomains[n]}
    /\ LoopsFinished /\ ParallelFileIds = ParallelNodes =>
          \A n \in ParallelNodes : writers[n] = {nodeDomains[n]}

C23_Witness ==
    /\ LoopsFinished
    /\ numberOfComputationalNodes = 2
    /\ ParallelFileIds = 1..3
    /\ ReadNodeFile(parallel_file).NodeNums[1][1] = 2
    /\ nodeDomains = <<0, 1, 0>>
    /\ writers = <<{0}, {1}, {0}>>

\* ------------------------------------------------------- element reader
DeclaredElements == elem_file[1][1].v
DeclaredNodesPerElement == elem_file[1][2].v
DeclaredElementAttributes == elem_file[1][3].v

\* C24: with a three-field header and enough lines, the element reader refuses
\* the file exactly when one of its element lines does not have
\* 1 + nodes_per_element + attribute_count tokens, and it never writes past
\* the end of the row of nodes_per_element + attribute_count slots it
\* allocated for an element.
C24_ElemLineTokenCount ==
    ( /\ Attempted("read_elems")
      /\ Len(elem_file[1]) = ElemHeaderTargets
      /\ Len(elem_file) - 1 >= DeclaredElements )
    => /\ FailedIn("read_elems")
          <=> \E j \in 1..DeclaredElements :
                 Len(elem_file[j + 1])
                   # 1 + DeclaredNodesPerElement + DeclaredElementAttributes
       /\ ~(FailedIn("read_elems") /\ err = "IndexError")

\* ----------------------------------------------- geometric field values
\* The id and the three coordinates on node line i of the node file.
LineId(i) == node_file[i + 1][1].v
LineCoords(i) ==
    <<node_file[i + 1][2].v, node_file[i + 1][3].v, node_file[i + 1][4].v>>

\* C25 as stated, for every node line: after the loop of the cell "Set
\* geometric field values" the field holds, at the id of line i, the three
\* coordinates of line i.
C25_FieldHoldsEveryLine ==
    Completed("geometric_values") =>
        \A i \in 1..DeclaredNodes :
            geometric_field[LineId(i)] = LineCoords(i)

\* C25 (amended): after the loop the field holds, at the id of line i, the
\* three coordinates of line i, for every node line i whose id stands on no
\* later line; the coordinates are keyed by the id on the line, not by the
\* position of the line.
C25_FieldHoldsLastLineOfId ==
    Completed("geometric_values") =>
        \A i \in 1..DeclaredNodes :
            (\A j \in (i + 1)..DeclaredNodes : LineId(j) # LineId(i)) =>
                geometric_field[LineId(i)] = LineCoords(i)

C25_Witness ==
    /\ Completed("geometric_values")
    /\ DeclaredNodes = 4
    /\ LineId(1) = 2 /\ LineId(2) = 1
    /\ geometric_field[2] = <<0, 0, 0>>
    /\ geometric_field[1] = <<1, 0, 0>>
    /\ geometric_field[4] = <<0, 0, 1>>

\* ------------------------------------------------------ element node lists
\* The element id on line j of the element file.
ElemLineId(j) == elem_file[j + 1][1].v

C27_ArraysByQuantity ==
    Attempted("arrays") /\ WellFormedInput /\ nodes >= 5 =>
        /\ Completed("arrays")
        /\ DOMAIN arrays = 1..4
        /\ \A k \in 1..4 :
              /\ Len(arrays[k]) = nodes
              /\ \A n \in 1..nodes : arrays[k][n] = nodes_list[n][k + 1]

\* -------------------------------------------------------- object lifecycle
\* The run is over: its last cell has run, or a cell has raised.
RunEnded == pc \in {"done", "aborted"}

\* C28: an object is handed to the stage that depends on it only when its
\* CreateFinish has been called (the mesh to the decomposition, the
\* decomposition to the fields), and when the run is over no object is left
\* started without its CreateFinish.
C28_StartFinishPaired ==
    /\ pc = "decomposition" => created["mesh"] = "finished"
    /\ pc = "geometric_field" => created["decomposition"] = "finished"
    /\ pc = "solution_field" => created["decomposition"] = "finished"
    /\ created["meshElements"] = "finished" => created["mesh"] # "none"
    /\ created["mesh"] = "finished" => created["meshElements"] = "finished"
    /\ RunEnded => \A o \in Objects : created[o] # "started"

\* ------------------------------------------------------------ finalisation
\* C29: once iron.Finalise() has run, no later step reads a field of the
\* library: the values a later cell exports were read before it.
\* solution_field_nodes is filled by the ParameterSetGetNodeDP loop of the
\* vtk cell only.
C29_NothingAfterFinalise ==
    finalised => solution_field_nodes = <<>>

====
